---- MODULE Spec2Model ----
(***************************************************************************)
(* bin/scrape_software_versions.py: probe four version files, extract a    *)
(* version from each with its regular expression, drop the sources whose   *)
(* file could not be read, print the MultiQC report fragment and write     *)
(* software_versions.csv.                                                  *)
(*                                                                         *)
(* Python strings are sequences of one-character strings.  A value stored  *)
(* in the results dictionary is tagged with its Python type, because the   *)
(* script stores both str values and the bool False.                       *)
(***************************************************************************)
EXTENDS Integers, Sequences, FiniteSets, TLC

VARIABLES
    pc,       \* the statement the interpreter is at
    todo,     \* keys of regexes the probe loop has not visited yet
    files,    \* what open()/read() found for each input file, once probed
    results,  \* the OrderedDict: a sequence of [k, v] items
    it,       \* keys of list(results) the filter loop has not visited yet
    stdout,   \* the strings print() has emitted, one per call
    csv,      \* software_versions.csv as this run leaves it
    err       \* the statement whose exception ended the run

vars == <<pc, todo, files, results, it, stdout, csv, err>>

----
\* Bounds of the model.

\* The number of input files that may hold two pieces of text; every other
\* file holds one piece at most.
MaxExtra == 1

----
\* Literals of the script.

\* The keys, in the order the script inserts them into results.
Declared == <<"nf-core/nanornabam", "Nextflow", "StringTie2", "FeatureCounts">>

Labels == {Declared[i] : i \in 1..Len(Declared)}

KPipeline ==
    << "n", "f", "-", "c", "o", "r", "e", "/", "n", "a", "n", "o", "r", "n",
       "a", "b", "a", "m" >>

KNextflow ==
    << "N", "e", "x", "t", "f", "l", "o", "w" >>

KStringTie2 ==
    << "S", "t", "r", "i", "n", "g", "T", "i", "e", "2" >>

KFeatureCounts ==
    << "F", "e", "a", "t", "u", "r", "e", "C", "o", "u", "n", "t", "s" >>

\* The characters of a key, as "{}".format(k) renders it.
LabelText(k) ==
    CASE k = "nf-core/nanornabam" -> KPipeline
      [] k = "Nextflow" -> KNextflow
      [] k = "StringTie2" -> KStringTie2
      [] k = "FeatureCounts" -> KFeatureCounts

\* '<span style="color:#999999;\">N/A</span>'
Sentinel ==
    << "<", "s", "p", "a", "n", " ", "s", "t", "y", "l", "e", "=", "\"", "c",
       "o", "l", "o", "r", ":", "#", "9", "9", "9", "9", "9", "9", ";", "\"",
       ">", "N", "/", "A", "<", "/", "s", "p", "a", "n", ">" >>

\* The literal prefix of r"featureCounts v(\S+)".
LitFeatureCounts ==
    << "f", "e", "a", "t", "u", "r", "e", "C", "o", "u", "n", "t", "s", " ",
       "v" >>

\* A pattern of the table is a literal prefix followed by the group (\S+).
PatToken == [lit |-> <<>>]

PatFeatureCounts == [lit |-> LitFeatureCounts]

regexes ==
    [k \in Labels |->
        CASE k = "nf-core/nanornabam" -> [file |-> "pipeline.version", pat |-> PatToken]
          [] k = "Nextflow" -> [file |-> "nextflow.version", pat |-> PatToken]
          [] k = "StringTie2" -> [file |-> "stringtie.version", pat |-> PatToken]
          [] k = "FeatureCounts" -> [file |-> "featureCounts.version", pat |-> PatFeatureCounts]]

FileNames == {regexes[k].file : k \in Labels}

\* The argument of the first print call, with the newline print appends.
Header ==
    << "\n", "i", "d", ":", " ", "'", "s", "o", "f", "t", "w", "a", "r", "e",
       "_", "v", "e", "r", "s", "i", "o", "n", "s", "'", "\n", "s", "e", "c",
       "t", "i", "o", "n", "_", "n", "a", "m", "e", ":", " ", "'", "n", "f",
       "-", "c", "o", "r", "e", "/", "n", "a", "n", "o", "r", "n", "a", "b",
       "a", "m", " ", "S", "o", "f", "t", "w", "a", "r", "e", " ", "V", "e",
       "r", "s", "i", "o", "n", "s", "'", "\n", "s", "e", "c", "t", "i", "o",
       "n", "_", "h", "r", "e", "f", ":", " ", "'", "h", "t", "t", "p", "s",
       ":", "/", "/", "g", "i", "t", "h", "u", "b", ".", "c", "o", "m", "/",
       "n", "f", "-", "c", "o", "r", "e", "/", "n", "a", "n", "o", "r", "n",
       "a", "b", "a", "m", "'", "\n", "p", "l", "o", "t", "_", "t", "y", "p",
       "e", ":", " ", "'", "h", "t", "m", "l", "'", "\n", "d", "e", "s", "c",
       "r", "i", "p", "t", "i", "o", "n", ":", " ", "'", "a", "r", "e", " ",
       "c", "o", "l", "l", "e", "c", "t", "e", "d", " ", "a", "t", " ", "r",
       "u", "n", " ", "t", "i", "m", "e", " ", "f", "r", "o", "m", " ", "t",
       "h", "e", " ", "s", "o", "f", "t", "w", "a", "r", "e", " ", "o", "u",
       "t", "p", "u", "t", ".", "'", "\n", "d", "a", "t", "a", ":", " ", "|",
       "\n", " ", " ", " ", " ", "<", "d", "l", " ", "c", "l", "a", "s", "s",
       "=", "\"", "d", "l", "-", "h", "o", "r", "i", "z", "o", "n", "t", "a",
       "l", "\"", ">", "\n", "\n" >>

\* print ("    </dl>")
Footer ==
    << " ", " ", " ", " ", "<", "/", "d", "l", ">", "\n" >>

\* The three literal parts of "        <dt>{}</dt><dd><samp>{}</samp></dd>".
DtOpen ==
    << " ", " ", " ", " ", " ", " ", " ", " ", "<", "d", "t", ">" >>

DtDd ==
    << "<", "/", "d", "t", ">", "<", "d", "d", ">", "<", "s", "a", "m", "p",
       ">" >>

DdClose ==
    << "<", "/", "s", "a", "m", "p", ">", "<", "/", "d", "d", ">" >>

----
\* Python values and the OrderedDict.

PyStr(s) == [t |-> "str", s |-> s]

PyFalse == [t |-> "bool", b |-> FALSE]

\* A filter that takes the placeholder for "nothing found" as well.
FalsyOrPlaceholder(x) == IF x.t = "bool" THEN ~x.b ELSE Len(x.s) = 0 \/ x.s = Sentinel

\* Truth value testing as `not x` does it: False and the empty string are falsy.
Falsy(x) == IF x.t = "bool" THEN ~x.b ELSE Len(x.s) = 0

\* "{}".format(x) of a stored value.
Str(x) ==
    IF x.t = "str" THEN x.s
    ELSE IF x.b THEN <<"T", "r", "u", "e">> ELSE <<"F", "a", "l", "s", "e">>

Keys(d) == [i \in 1..Len(d) |-> d[i].k]

HasKey(d, k) == \E i \in 1..Len(d) : d[i].k = k

Get(d, k) == d[CHOOSE i \in 1..Len(d) : d[i].k = k].v

\* del(d[k]): the other items keep their order.
DelItem(d, k) == SelectSeq(d, LAMBDA e : e.k # k)

\* An assignment that moves the key to the end, as pop-and-insert would.
SetItemLast(d, k, v) == Append(DelItem(d, k), [k |-> k, v |-> v])

\* d[k] = v: an existing key keeps its position, a new key goes last.
SetItem(d, k, v) ==
    IF HasKey(d, k)
    THEN [i \in 1..Len(d) |-> IF d[i].k = k THEN [k |-> k, v |-> v] ELSE d[i]]
    ELSE Append(d, [k |-> k, v |-> v])

----
\* re.search for the patterns of the table.

\* \S is any character that is not whitespace.
IsSpace(c) == c \in {" ", "\t", "\n", "\r", "\f"}

\* (\S+) is greedy: the number of non-whitespace characters from position j on.
RunLen(text, j) ==
    LET stops == {i \in j..Len(text) : IsSpace(text[i])}
    IN  IF stops = {} THEN Len(text) + 1 - j
        ELSE (CHOOSE i \in stops : \A h \in stops : i <= h) - j

NoMatch == [ok |-> FALSE]

\* One attempt of the engine at start position i: the literal, then (\S+).
MatchAt(pat, text, i) ==
    LET j == i + Len(pat.lit)
        n == RunLen(text, j)
    IN  IF /\ j - 1 <= Len(text)
           /\ \A h \in 1..Len(pat.lit) : text[i + h - 1] = pat.lit[h]
           /\ n >= 1
        THEN [ok |-> TRUE, start |-> i, group1 |-> SubSeq(text, j, j + n - 1)]
        ELSE NoMatch

\* The engine tries the start positions from left to right and returns the
\* first attempt that succeeds.
RECURSIVE SearchFrom(_, _, _)
SearchFrom(pat, text, i) ==
    IF i > Len(text) + 1 THEN NoMatch
    ELSE LET m == MatchAt(pat, text, i)
         IN  IF m.ok THEN m ELSE SearchFrom(pat, text, i + 1)

\* re.match in place of re.search: only the start of the text is tried.
SearchAnchored(pat, text) == MatchAt(pat, text, 1)

Search(pat, text) == SearchFrom(pat, text, 1)

\* "v{}".format(match.group(1))
FormatVersion(group1) == <<"v">> \o group1

----
\* The input files.

\* What a probe can find: open() raises IOError; open() succeeds and read()
\* raises IOError; read() raises UnicodeDecodeError (the bytes are not text in
\* the locale's encoding, Python 3); read() returns the text.
Unread == [kind |-> "unread"]

Absent == [kind |-> "absent"]

ReadError == [kind |-> "readerr"]

Undecodable == [kind |-> "undecodable"]

TextFile(t) == [kind |-> "text", text |-> t]

\* File contents are built from these pieces.
Pieces == {LitFeatureCounts, <<"2">>, <<"\n">>}

RECURSIVE TextsOf(_)
TextsOf(n) ==
    IF n = 0 THEN {<<>>}
    ELSE {p \o t : p \in Pieces, t \in TextsOf(n - 1)}

\* The number of pieces of a text.
RECURSIVE Weight(_)
Weight(t) ==
    IF t = <<>> THEN 0
    ELSE IF Len(t) >= Len(LitFeatureCounts)
            /\ SubSeq(t, 1, Len(LitFeatureCounts)) = LitFeatureCounts
         THEN 1 + Weight(SubSeq(t, Len(LitFeatureCounts) + 1, Len(t)))
         ELSE 1 + Weight(Tail(t))

\* 1 for a file of two pieces, 0 for any other.
FileWeight(f) == IF f.kind = "text" /\ Weight(f.text) >= 2 THEN 1 ELSE 0

RECURSIVE SumWeights(_, _)
SumWeights(fs, names) ==
    IF names = {} THEN 0
    ELSE LET n == CHOOSE n \in names : TRUE
         IN  FileWeight(fs[n]) + SumWeights(fs, names \ {n})

\* The file states a probe may find when `used` of the files read so far
\* hold two pieces: a file holds at most one piece once MaxExtra files hold two.
FileStates ==
    [used \in 0..MaxExtra |->
        {Absent, ReadError, Undecodable}
        \cup {TextFile(t) : t \in TextsOf(0) \cup TextsOf(1)
                                   \cup (IF used < MaxExtra THEN TextsOf(2) ELSE {})}]

----
\* The two renderings.

\* "        <dt>{}</dt><dd><samp>{}</samp></dd>".format(k,v), with print's newline.
Item(k, v) == DtOpen \o LabelText(k) \o DtDd \o Str(v) \o DdClose \o <<"\n">>

\* "{}\t{}\n".format(k,v)
Line(k, v) == LabelText(k) \o <<"\t">> \o Str(v) \o <<"\n">>

\* What f.write has written after the first n items of d.
RECURSIVE Written(_, _)
Written(d, n) ==
    IF n = 0 THEN <<>> ELSE Written(d, n - 1) \o Line(d[n].k, d[n].v)

\* A line an earlier run left in software_versions.csv.
Stale == Line("Nextflow", PyStr(<<"v", "1">>))

\* What software_versions.csv may hold before the run: nothing, or an old table.
OldCsv == {<<>>, Stale}

\* open(name, 'a') keeps what is there.
OpenA(old) == old

\* open(name, 'w') truncates.
OpenW(old) == <<>>

----
\* The script.

InitResults ==
    SetItem(SetItem(SetItem(SetItem(<<>>,
        "nf-core/nanornabam", PyStr(Sentinel)),
        "Nextflow", PyStr(Sentinel)),
        "StringTie2", PyStr(Sentinel)),
        "FeatureCounts", PyStr(Sentinel))

Init ==
    /\ pc = "probe"
    /\ todo = Labels
    /\ files = [n \in FileNames |-> Unread]
    /\ results = InitResults
    /\ it = <<>>
    /\ stdout = <<>>
    /\ csv = [touched |-> FALSE, data |-> <<>>]
    /\ err = "none"

\* The keys `for k, v in regexes.items()` may yield next.  regexes is a plain
\* dict: its iteration order is the insertion order only on interpreters whose
\* dict is ordered, and the script also runs on those where it is not.
NextKeys(remaining) == remaining

\* A try body that marks a file without a match like a file that is missing.
MatchedOrFalse(d, k, text) ==
    LET match == Search(regexes[k].pat, text)
    IN  IF match.ok THEN SetItem(d, k, PyStr(FormatVersion(match.group1)))
        ELSE SetItem(d, k, PyFalse)

\* The body of the try statement for a file that is read as text.
Matched(d, k, text) ==
    LET match == Search(regexes[k].pat, text)
    IN  IF match.ok THEN SetItem(d, k, PyStr(FormatVersion(match.group1))) ELSE d

\* except IOError: pass
OnIOErrorPass(d, k) == d

\* A handler that gives up on every source.
OnIOErrorAll(d, k) == [i \in 1..Len(d) |-> [k |-> d[i].k, v |-> PyFalse]]

\* except IOError: results[k] = False
OnIOError(d, k) == SetItem(d, k, PyFalse)

\* One iteration of the probe loop.
Probe(k) ==
    /\ pc = "probe"
    /\ k \in NextKeys(todo)
    /\ \E f \in FileStates[SumWeights(files, FileNames)] :
        /\ files' = [files EXCEPT ![regexes[k].file] = f]
        /\ todo' = todo \ {k}
        /\ IF f.kind = "undecodable"
           THEN \* UnicodeDecodeError is a ValueError: no handler, the script ends
                /\ pc' = "crashed"
                /\ err' = "read"
                /\ results' = results
           ELSE /\ pc' = IF todo' = {} THEN "list" ELSE "probe"
                /\ err' = err
                /\ results' = IF f.kind = "text" THEN Matched(results, k, f.text)
                              ELSE OnIOError(results, k)
    /\ UNCHANGED <<it, stdout, csv>>

\* for k in list(results): the keys are copied before the loop starts.
ListResults ==
    /\ pc = "list"
    /\ it' = Keys(results)
    /\ pc' = IF it' = <<>> THEN "render" ELSE "filter"
    /\ UNCHANGED <<todo, files, results, stdout, csv, err>>

\* One iteration of the filter loop.
Filter ==
    /\ pc = "filter"
    /\ results' = IF Falsy(Get(results, Head(it))) THEN DelItem(results, Head(it))
                  ELSE results
    /\ it' = Tail(it)
    /\ pc' = IF it' = <<>> THEN "render" ELSE "filter"
    /\ UNCHANGED <<todo, files, stdout, csv, err>>

\* The three print statements: the header, one item per entry, the closing tag.
Render ==
    /\ pc = "render"
    /\ stdout' = <<Header>>
                 \o [i \in 1..Len(results) |-> Item(results[i].k, results[i].v)]
                 \o <<Footer>>
    /\ pc' = "open"
    /\ UNCHANGED <<todo, files, results, it, csv, err>>

\* with open('software_versions.csv', 'w') as f: the open may raise.
OpenCsv ==
    /\ pc = "open"
    /\ \E old \in OldCsv, ok \in BOOLEAN :
        IF ok
        THEN /\ csv' = [touched |-> TRUE, data |-> OpenW(old)]
             /\ pc' = "write"
             /\ err' = err
        ELSE /\ csv' = csv
             /\ pc' = "crashed"
             /\ err' = "open_csv"
    /\ UNCHANGED <<todo, files, results, it, stdout>>

\* The write loop and the close.  A failing write or flush ends the script
\* with the lines written so far in the file.
WriteCsv ==
    /\ pc = "write"
    /\ \E n \in 0..Len(results), ok \in BOOLEAN :
        /\ ok => n = Len(results)
        /\ csv' = [csv EXCEPT !.data = csv.data \o Written(results, n)]
        /\ pc' = IF ok THEN "done" ELSE "crashed"
        /\ err' = IF ok THEN err ELSE "write_csv"
    /\ UNCHANGED <<todo, files, results, it, stdout>>

Next ==
    \/ \E k \in Labels : Probe(k)
    \/ ListResults
    \/ Filter
    \/ Render
    \/ OpenCsv
    \/ WriteCsv

Spec == Init /\ [][Next]_vars

----
\* Reading the two artifacts back.

\* The position of the first occurrence of sep in s, 0 when there is none.
Find(s, sep) ==
    LET hits == {i \in 1..(Len(s) - Len(sep) + 1) :
                    s[i] = sep[1] /\ SubSeq(s, i, i + Len(sep) - 1) = sep}
    IN  IF hits = {} THEN 0 ELSE CHOOSE i \in hits : \A j \in hits : i <= j

\* The pieces of s between the occurrences of the character c.
Cut(s, c) ==
    LET at == {i \in 1..Len(s) : s[i] = c}
        n == Cardinality(at)
        nth(k) == CHOOSE i \in at : Cardinality({j \in at : j < i}) = k - 1
        first(k) == IF k = 1 THEN 1 ELSE nth(k - 1) + 1
        last(k) == IF k = n + 1 THEN Len(s) ELSE nth(k) - 1
    IN  [k \in 1..(n + 1) |-> SubSeq(s, first(k), last(k))]

\* The lines of a text file, without their newlines; an unterminated rest
\* counts as a line.
SplitLines(s) ==
    LET parts == Cut(s, "\n")
    IN  IF parts[Len(parts)] = <<>> THEN SubSeq(parts, 1, Len(parts) - 1) ELSE parts

\* The tab-separated columns of a line.
Columns(s) == Cut(s, "\t")

\* The rows of the delimited artifact, each a sequence of columns.
CsvRows(data) ==
    LET lines == SplitLines(data)
    IN  [i \in 1..Len(lines) |-> Columns(lines[i])]

\* The label and the value of a printed <dt>/<dd> item.
ItemPair(s) ==
    LET p == Find(s, DtDd)
    IN  <<SubSeq(s, Len(DtOpen) + 1, p - 1),
          SubSeq(s, p + Len(DtDd), Len(s) - Len(DdClose) - 1)>>

WellFormedItem(s) ==
    /\ Len(s) >= Len(DtOpen) + Len(DtDd) + Len(DdClose) + 1
    /\ SubSeq(s, 1, Len(DtOpen)) = DtOpen
    /\ Find(s, DtDd) > Len(DtOpen)
    /\ SubSeq(s, Len(s) - Len(DdClose), Len(s)) = DdClose \o <<"\n">>

\* The report is complete: the header, well-formed items, the closing tag.
ReportComplete ==
    /\ Len(stdout) >= 2
    /\ stdout[1] = Header
    /\ stdout[Len(stdout)] = Footer
    /\ \A i \in 2..(Len(stdout) - 1) : WellFormedItem(stdout[i])

Range(s) == {s[i] : i \in 1..Len(s)}

\* The (label, value) pairs of the printed items, in the order printed.
ReportPairs == [i \in 1..(Len(stdout) - 2) |-> ItemPair(stdout[i + 1])]

\* The (label, value) pairs of the registry, as text.
RegistryPairs == [i \in 1..Len(results) |-> <<LabelText(results[i].k), Str(results[i].v)>>]

\* What the report shows, and what the file this run wrote shows.
ReportShown == {ItemPair(stdout[i]) : i \in 2..(Len(stdout) - 1)}

CsvShown == IF csv.touched THEN Range(CsvRows(csv.data)) ELSE {}

----
\* Phases and outcomes.

\* The filter loop has finished.
Filtered == pc \in {"render", "open", "write", "done"} \/ (pc = "crashed" /\ err # "read")

Printed == pc \in {"open", "write", "done"} \/ (pc = "crashed" /\ err # "read")

FileOf(k) == files[regexes[k].file]

\* A match of the pattern at start position i whose group holds n characters.
IsMatch(pat, text, i, n) ==
    /\ n >= 1
    /\ i >= 1
    /\ i + Len(pat.lit) + n - 1 <= Len(text)
    /\ \A j \in 1..Len(pat.lit) : text[i + j - 1] = pat.lit[j]
    /\ \A j \in (i + Len(pat.lit))..(i + Len(pat.lit) + n - 1) : ~IsSpace(text[j])

Matches(pat, text) == \E i \in 1..Len(text) : IsMatch(pat, text, i, 1)

\* The group of the leftmost match, taken as long as it can be.
IsFirstGroup(pat, text, g) ==
    \E i \in 1..Len(text) :
        /\ IsMatch(pat, text, i, Len(g))
        /\ ~IsMatch(pat, text, i, Len(g) + 1)
        /\ \A h \in 1..(i - 1) : ~IsMatch(pat, text, h, 1)
        /\ g = SubSeq(text, i + Len(pat.lit), i + Len(pat.lit) + Len(g) - 1)

Unmatched(k) == FileOf(k).kind = "text" /\ ~Matches(regexes[k].pat, FileOf(k).text)

MatchedFile(k) == FileOf(k).kind = "text" /\ Matches(regexes[k].pat, FileOf(k).text)

----
\* C1: a label whose file could not be opened has no entry in the registry
\* once the filter loop has run, and appears neither among the printed items
\* nor in the file the run wrote, whichever of the four labels are absent.
C1_AbsentDropped ==
    LET shown == ReportShown
        rows == CsvShown
    IN  \A k \in Labels :
            FileOf(k).kind = "absent" =>
                /\ Filtered => ~HasKey(results, k)
                /\ \A p \in shown : p[1] # LabelText(k)
                /\ \A r \in rows : r[1] # LabelText(k)

\* StringTie2's file is missing, the other three are shown, the run is over.
C1_Witness ==
    /\ pc = "done"
    /\ FileOf("StringTie2").kind = "absent"
    /\ Keys(results) = <<"nf-core/nanornabam", "Nextflow", "FeatureCounts">>

\* C2: a label whose file was read but whose pattern matched nothing is
\* still in the registry after the filter, with exactly the sentinel, and is
\* shown with the sentinel by the report and by the written file.
C2_UnmatchedKeepsSentinel ==
    LET shown == ReportShown
        rows == CsvShown
    IN  \A k \in Labels :
            Unmatched(k) =>
                /\ Filtered => HasKey(results, k) /\ Get(results, k) = PyStr(Sentinel)
                /\ Printed => <<LabelText(k), Sentinel>> \in shown
                /\ pc = "done" => <<LabelText(k), Sentinel>> \in rows

\* FeatureCounts' file has text but no 'featureCounts v<token>', and an
\* empty file for the pattern (\S+).
C2_Witness ==
    /\ pc = "done"
    /\ FileOf("FeatureCounts") = TextFile(<<"2">>)
    /\ FileOf("Nextflow") = TextFile(<<>>)
    /\ FileOf("StringTie2") = TextFile(<<"\n">>)

\* C3: a label whose file was read and whose pattern matches is mapped, in
\* the registry after the filter, to "v" followed by group 1 of the leftmost
\* match, the group taken greedily, and nothing else.
C3_FirstMatchVersion ==
    \A k \in Labels :
        (Filtered /\ MatchedFile(k)) =>
            /\ HasKey(results, k)
            /\ Get(results, k).t = "str"
            /\ Len(Get(results, k).s) >= 2
            /\ Head(Get(results, k).s) = "v"
            /\ IsFirstGroup(regexes[k].pat, FileOf(k).text, Tail(Get(results, k).s))

\* "featureCounts v2" for FeatureCounts, and two tokens in Nextflow's file,
\* of which the first one wins.
C3_Witness ==
    /\ pc = "done"
    /\ FileOf("FeatureCounts") = TextFile(LitFeatureCounts \o <<"2">>)
    /\ Get(results, "FeatureCounts") = PyStr(<<"v", "2">>)
    /\ FileOf("Nextflow") = TextFile(LitFeatureCounts)
    /\ Get(results, "Nextflow") = PyStr(<<"v">> \o SubSeq(LitFeatureCounts, 1, 13))

----
\* The source's open or read raised IOError.
Dropped(k) == FileOf(k).kind \in {"absent", "readerr"}

\* C4: the registry always iterates in the declared order of the keys it
\* holds, whatever order the sources were probed in and whatever was read;
\* after the filter it holds exactly the declared keys whose file was read;
\* with four matching files the written file has four lines in that order.
C4_DeclaredOrder ==
    /\ Keys(results) = SelectSeq(Declared, LAMBDA k : HasKey(results, k))
    /\ Filtered => Keys(results) = SelectSeq(Declared, LAMBDA k : ~Dropped(k))
    /\ (pc = "done" /\ \A k \in Labels : MatchedFile(k)) =>
            LET rows == CsvRows(csv.data)
            IN  /\ Len(rows) = 4
                /\ \A i \in 1..4 : rows[i][1] = LabelText(Declared[i])

\* Four matching files and four lines.
C4_Witness ==
    /\ pc = "done"
    /\ \A k \in Labels : MatchedFile(k)
    /\ Len(SplitLines(csv.data)) = 4

\* C5: after a successful write the file holds one line per entry of the
\* registry and nothing else, each line the label, one tab, the value and a
\* newline, in registry order; its (label, value) pairs are those of the
\* printed items, in the same order.
C5_CsvMatchesRegistry ==
    pc = "done" =>
        LET rows == CsvRows(csv.data)
        IN  /\ Len(rows) = Len(results)
            /\ \A i \in 1..Len(rows) : rows[i] = RegistryPairs[i]
            /\ csv.data # <<>> => csv.data[Len(csv.data)] = "\n"
            /\ Len(ReportPairs) = Len(rows)
            /\ \A i \in 1..Len(rows) : rows[i] = ReportPairs[i]

\* A dropped label, a sentinel and a version among the three lines written.
C5_Witness ==
    /\ pc = "done"
    /\ Len(results) = 3
    /\ FileOf("Nextflow").kind = "absent"
    /\ Unmatched("FeatureCounts")
    /\ MatchedFile("StringTie2")

\* "v" and a non-empty run of non-whitespace.
IsVersion(s) == Len(s) >= 2 /\ Head(s) = "v" /\ \A i \in 2..Len(s) : ~IsSpace(s[i])

\* The filter loop has not come to the key yet.
Unvisited(k) == pc = "list" \/ (pc = "filter" /\ k \in Range(it))

\* C8: the filter loop removes an entry exactly when the entry holds False,
\* which is exactly when the source's open or read raised IOError: an entry
\* the loop has not visited yet is there, and holds False exactly for such a
\* source; an entry it has visited is there exactly when its source did not
\* raise, so no sentinel and no version is ever removed; after the filter
\* every value is the sentinel or "v" and a non-empty run of non-whitespace,
\* the report and the completed file show nothing else, and no file this run
\* wrote to shows False.
C8_FilterRemovesOnlyFalse ==
    /\ pc \in {"list", "filter"} \/ Filtered =>
            \A k \in Labels :
                IF Unvisited(k)
                THEN HasKey(results, k) /\ (Get(results, k) = PyFalse <=> Dropped(k))
                ELSE HasKey(results, k) <=> ~Dropped(k)
    /\ Filtered => \A i \in 1..Len(results) :
            /\ results[i].v.t = "str"
            /\ results[i].v.s = Sentinel \/ IsVersion(results[i].v.s)
    /\ \A p \in ReportShown : p[2] = Sentinel \/ IsVersion(p[2])
    /\ \A r \in CsvShown :
            /\ r[2] # Str(PyFalse)
            /\ pc = "done" => r[2] = Sentinel \/ IsVersion(r[2])

\* The filter has removed two False entries and kept a sentinel and a version.
C8_Witness ==
    /\ pc = "render"
    /\ FileOf("nf-core/nanornabam").kind = "readerr"
    /\ FileOf("Nextflow").kind = "absent"
    /\ Unmatched("StringTie2")
    /\ MatchedFile("FeatureCounts")
    /\ Keys(results) = <<"StringTie2", "FeatureCounts">>

\* An entry of the registry, or its absence.
Kept(v) == [kept |-> TRUE, v |-> v]

Gone == [kept |-> FALSE]

\* The entry a label has by its own file alone, before and after the filter
\* has passed it.
OwnResult(k, f, filtered) ==
    CASE f.kind = "text" ->
            LET match == Search(regexes[k].pat, f.text)
            IN  Kept(IF match.ok THEN PyStr(FormatVersion(match.group1)) ELSE PyStr(Sentinel))
      [] f.kind \in {"absent", "readerr"} -> IF filtered THEN Gone ELSE Kept(PyFalse)
      [] OTHER -> Kept(PyStr(Sentinel))

Entry(d, k) == IF HasKey(d, k) THEN Kept(Get(d, k)) ELSE Gone

\* C10: at every point of the run the entry of a label is a function of that
\* label's own file and pattern alone (and of whether the filter has passed
\* it), so two runs that agree on the file agree on the entry, whatever the
\* other three files hold, and a probe changes no entry but its own.
C10_OwnFileOnly ==
    \A k \in Labels :
        Entry(results, k) =
            OwnResult(k, FileOf(k), Filtered \/ (pc = "filter" /\ k \notin Range(it)))

\* Nextflow's entry is the same version in a run where every other file is
\* missing as it is beside other files.
C10_Witness ==
    /\ pc = "done"
    /\ FileOf("Nextflow") = TextFile(<<"2">>)
    /\ \A k \in Labels \ {"Nextflow"} : FileOf(k).kind = "absent"
    /\ Keys(results) = <<"Nextflow">>
    /\ Get(results, "Nextflow") = PyStr(<<"v", "2">>)

\* C6: no failure of a source's file is fatal: whether the file cannot be
\* opened, cannot be read after it was opened, or does not decode as text,
\* the probe loop does not end the run, and once the filter has run the label
\* is either gone or shown with the sentinel.
C6_NoProbeFailureIsFatal ==
    \A k \in Labels :
        FileOf(k).kind \in {"absent", "readerr", "undecodable"} =>
            /\ ~(pc = "crashed" /\ err = "read")
            /\ Filtered => Entry(results, k) \in {Gone, Kept(PyStr(Sentinel))}

\* C7: a run ends abnormally only when software_versions.csv cannot be
\* opened or written, and then the complete report, with one item per
\* surviving entry, is already on standard output; a run that ends normally
\* has produced both artifacts.
C7_OnlyCsvFailureIsAbnormal ==
    /\ pc = "crashed" =>
            /\ err \in {"open_csv", "write_csv"}
            /\ ReportComplete
            /\ Len(stdout) = Len(results) + 2
    /\ pc = "done" =>
            /\ err = "none"
            /\ ReportComplete
            /\ Len(stdout) = Len(results) + 2
            /\ csv.touched

\* C9: the run is one pass: every one of the four sources is probed, once,
\* before anything but probing happens, whatever the earlier probes found;
\* the filter runs on the registry the last probe left, printing starts only
\* after the filter and the file is touched only after the report is printed.
C9_StraightLinePass ==
    /\ \A k \in Labels : k \in todo <=> FileOf(k) = Unread
    /\ pc # "probe" => todo = {}
    /\ pc \in {"probe", "list", "filter", "render"} => stdout = <<>>
    /\ pc \in {"probe", "list", "filter", "render", "open"} => ~csv.touched
    /\ pc \in {"open", "write", "done"} => ReportComplete /\ it = <<>>

====
